---- MODULE Spec2Model ----
(***************************************************************************)
(* Model of the autotask-mcp protocol-serving core:                        *)
(*   - the Protocol Dispatcher (AutotaskMcpServer, src/src/mcp/server.ts), *)
(*     its four request handlers and its stdio start();                    *)
(*   - the Stateless Transport Adapter / HTTP front door                   *)
(*     (createHttpServer, src/unnamed/part_000 lines 8-80);                *)
(*   - the process-level rejection handler (src/unnamed/part_000 166-170). *)
(*                                                                         *)
(* One dispatcher (the single Server instance returned by getServer()) is  *)
(* shared by every POST /mcp call.  The dispatcher holds one transport     *)
(* binding; connect() sets it, a transport's close clears it.              *)
(***************************************************************************)
EXTENDS Integers, Sequences, FiniteSets, TLC

\* ------------------------------------------------------------------ bounds
\* Number of POST /mcp calls (HTTP mode) or stdio requests (stdio mode)
\* that one run of the process receives; calls are numbered in order of
\* arrival.
NCalls == 2

Calls == 1..NCalls

\* Number of termination signals (SIGINT, SIGTERM) delivered to the process.
MaxSignals == 2

\* Largest process.uptime() value a health probe observes.
MaxUptime == 1

\* ------------------------------------------------------- program constants
\* ErrorCode.InternalError, the only code this core emits.
InternalError == -32603

\* ------------------------------------------------------------- JS values
\* A raised value.  "Error" and "McpError" satisfy `instanceof Error';
\* a raised string carries text but is no Error; undefined carries nothing.
Failures ==
    { [type |-> "Error",     message |-> "boom",           code |-> 0],
      [type |-> "Error",     message |-> "",               code |-> 0],
      [type |-> "McpError",  message |-> "Invalid params", code |-> -32602],
      [type |-> "string",    message |-> "boom",           code |-> 0],
      [type |-> "undefined", message |-> "",               code |-> 0] }

\* The one failure the HTTP-mode specification lets a capability handler raise.
HttpFailures == { [type |-> "Error", message |-> "boom", code |-> 0] }

\* `error instanceof Error'
InstanceOfError(error) == error.type \in {"Error", "McpError"}

\* params.arguments of a call_tool request: omitted, or a mapping (a set of
\* key/value pairs).
Omitted      == [present |-> FALSE, map |-> {}]
EmptyMapping == [present |-> TRUE,  map |-> {}]
SomeMapping  == [present |-> TRUE,  map |-> {<<"searchTerm", "acme">>}]
ArgumentValues == {Omitted, EmptyMapping, SomeMapping}

\* JSON-RPC request ids; every client numbers its own requests, so two
\* independent HTTP clients may use the same id.
RpcIds == {1, 2}

Methods == {"list_resources", "read_resource", "list_tools", "call_tool"}

ParamsOf(method) ==
    CASE method = "read_resource" -> {[uri |-> "autotask://companies"]}
      [] method = "call_tool"     -> {[name |-> "search_companies", arguments |-> a] :
                                         a \in ArgumentValues}
      [] OTHER                    -> {[none |-> TRUE]}

\* Every protocol request the dispatcher serves.
Requests ==
    UNION { {[method |-> m, id |-> i, params |-> p] : i \in RpcIds, p \in ParamsOf(m)} :
            m \in Methods }

\* The requests the HTTP-mode specification sends.
HttpRequests ==
    { r \in Requests : r.method = "call_tool" /\ r.params.arguments = Omitted }

NoRequest == [method |-> "none", id |-> 0, params |-> [none |-> TRUE]]

\* What a capability handler may return, per operation (a resource content
\* is the triple uri, mimeType, text).
ReturnsOf(method) ==
    CASE method = "list_resources" -> {<< >>, <<"autotask://companies", "autotask://tickets">>}
      [] method = "read_resource"  -> {<<"autotask://companies", "application/json", "[]">>}
      [] method = "list_tools"     -> {<<"search_companies", "test_connection">>}
      [] method = "call_tool"      -> {[content |-> <<"ok">>, isError |-> FALSE],
                                       [content |-> <<"no such company">>, isError |-> TRUE]}
      [] OTHER                     -> {}

\* ---------------------------------------------- Protocol Dispatcher (4.1)
\* The outcome of one capability-handler call: it returned a value or raised.
Returned(v) == [type |-> "return", value |-> v]
Raised(e)   == [type |-> "throw",  value |-> e]

\* What a request handler hands back to the protocol layer: a result payload,
\* or a raised McpError(code, message).
Result(payload)         == [kind |-> "result", result |-> payload]
McpError(code, message) == [kind |-> "error", code |-> code, message |-> message]
NoOutcome               == [kind |-> "none", type |-> "none"]

\* `${error instanceof Error ? error.message : 'Unknown error'}`
CauseTextOrDefault(error) == IF error.message # "" THEN error.message ELSE "Unknown error"
CauseText(error) == IF InstanceOfError(error) THEN error.message ELSE "Unknown error"

\* `request.params.arguments || {}': a mapping is truthy, undefined is not.
ArgumentsRaw(arguments) == arguments
ArgumentsOrEmpty(arguments) == IF arguments.present THEN arguments ELSE EmptyMapping

\* The catch block of each handler: throw new McpError(InternalError, ...).
WrapWithCode(prefix, error) == McpError(error.code, prefix \o ": " \o CauseText(error))
WrapFailure(prefix, error) == McpError(InternalError, prefix \o ": " \o CauseText(error))

ListResourcesHandler(request, outcome) ==
    IF outcome.type = "return"
    THEN Result([resources |-> outcome.value])
    ELSE WrapFailure("Failed to list resources", outcome.value)

ReadResourceUnwrapped(request, outcome) ==
    IF outcome.type = "return"
    THEN Result([contents |-> outcome.value])
    ELSE WrapFailure("Failed to read resource", outcome.value)
ReadResourceHandler(request, outcome) ==
    IF outcome.type = "return"
    THEN Result([contents |-> <<outcome.value>>])
    ELSE WrapFailure("Failed to read resource", outcome.value)

ListToolsHandler(request, outcome) ==
    IF outcome.type = "return"
    THEN Result([tools |-> outcome.value])
    ELSE WrapFailure("Failed to list tools", outcome.value)

CallToolRaisingOnIsError(request, outcome) ==
    IF outcome.type = "return"
    THEN IF outcome.value.isError
         THEN McpError(InternalError, "Failed to call tool: Unknown error")
         ELSE Result([content |-> outcome.value.content, isError |-> outcome.value.isError])
    ELSE WrapFailure("Failed to call tool", outcome.value)
CallToolHandler(request, outcome) ==
    IF outcome.type = "return"
    THEN Result([content |-> outcome.value.content, isError |-> outcome.value.isError])
    ELSE WrapFailure("Failed to call tool", outcome.value)

\* setRequestHandler table: the request kind selects the handler.
Dispatch(request, outcome) ==
    CASE request.method = "list_resources" -> ListResourcesHandler(request, outcome)
      [] request.method = "read_resource"  -> ReadResourceHandler(request, outcome)
      [] request.method = "list_tools"     -> ListToolsHandler(request, outcome)
      [] request.method = "call_tool"      -> CallToolHandler(request, outcome)

\* The capability-handler call each request handler makes.
InvocationCrossed(request) ==
    CASE request.method = "list_resources" -> [op |-> "listResources", args |-> << >>]
      [] request.method = "read_resource"  -> [op |-> "readResource", args |-> <<request.params.uri>>]
      [] request.method = "list_tools"     -> [op |-> "listResources", args |-> << >>]
      [] request.method = "call_tool"      ->
            [op |-> "callTool",
             args |-> <<request.params.name, ArgumentsOrEmpty(request.params.arguments)>>]
Invocation(request) ==
    CASE request.method = "list_resources" -> [op |-> "listResources", args |-> << >>]
      [] request.method = "read_resource"  -> [op |-> "readResource", args |-> <<request.params.uri>>]
      [] request.method = "list_tools"     -> [op |-> "listTools", args |-> << >>]
      [] request.method = "call_tool"      ->
            [op |-> "callTool",
             args |-> <<request.params.name, ArgumentsOrEmpty(request.params.arguments)>>]

\* The protocol envelope of a dispatcher outcome for request id `id'.
Envelope(id, out) ==
    IF out.kind = "result"
    THEN [jsonrpc |-> "2.0", id |-> id, result |-> out.result]
    ELSE [jsonrpc |-> "2.0", id |-> id, error |-> [code |-> out.code, message |-> out.message]]

\* ------------------------------------------------------------------ state
VARIABLES
    proc,         \* "starting" | "running" | "exited"
    exitCode,     \* the code process.exit was called with (0 while running)
    rejections,   \* rejected promises nobody handles, not yet reported
    bound,        \* the dispatcher's transport binding: NoTransport, a session, StdioTransport
    ntransports,  \* number of StreamableHTTPServerTransport sessions constructed
    pc,           \* per call: position of the POST /mcp route handler (or "stdio")
    req,          \* per call: the request body
    tr,           \* per call: the session the route handler constructed
    users,        \* per session: the calls that connected or ran a request on it
    hooks,        \* per call: 'close' listeners registered on the response
    res,          \* per call: the HTTP response stream
    closeCalls,   \* per session: number of transport.close() invocations
    awaiting,     \* per call: the session holds an open stream for the request id
    captured,     \* per call: the transport the dispatcher answers the request on
    dpc,          \* per call: "none" | "pending" | "settled" (request handler)
    hout,         \* per call: how the capability-handler call ended
    dout,         \* per call: what the request handler produced
    hcalls,       \* per call: capability-handler invocations made for the request
    sentOn,       \* per call: where the dispatcher's answer went
    received,     \* per call: the calls whose answers were written on its stream
    logs,         \* per call: logger.error messages
    steps,        \* per call: the adapter steps the route handler has executed, in order
    caught,       \* per call: 'Failed to handle MCP request' log entries written
    config,       \* which of the three credentials the environment provides
    server,       \* the dispatcher's identity, capabilities, instructions, handler table
    listening,    \* the HTTP server accepts new requests
    sigs,         \* the termination signals delivered so far, in order
    stopCalls,    \* number of stop() invocations
    stopDone,     \* number of stop() invocations that have completed
    syslog,       \* process-level log messages
    health        \* the last GET /health response

\* What main() and the process-level handlers own.
hostVars == <<config, server, listening, sigs, stopCalls, stopDone, syslog, health>>

\* The per-call history of the route handler.
traceVars == <<steps, caught>>

vars == <<proc, exitCode, rejections, bound, ntransports, pc, req, tr, users, hooks, res,
          closeCalls, awaiting, captured, dpc, hout, dout, hcalls, sentOn, received, logs,
          steps, caught, config, server, listening, sigs, stopCalls, stopDone, syslog,
          health>>

NoTransport    == 0
StdioTransport == NCalls + 1

\* JSON null in the `id' member of the synthesized envelope.
NullId == 0

\* The literal body of the catch block's 500 response.
InternalServerErrorBody ==
    [jsonrpc |-> "2.0",
     error   |-> [code |-> -32603, message |-> "Internal server error"],
     id      |-> NullId]

FreshResponse == [headerWrites |-> 0, status |-> 0, body |-> << >>, closed |-> FALSE]

Unsent == [state |-> "unsent", stream |-> 0]

\* The three required credentials.
Credentials == {"username", "secret", "integrationCode"}

\* The environments main() may find: each credential set or not.
Configs == [Credentials -> BOOLEAN]

\* !username || !secret || !integrationCode
MissingUsername(cfg) == ~cfg["username"]
MissingCredentials(cfg) == \E k \in Credentials : ~cfg[k]

\* capabilities passed to new Server(...), lines 38-46.
Capabilities ==
    [resources |-> [subscribe |-> FALSE, listChanged |-> TRUE],
     tools     |-> [listChanged |-> TRUE]]

\* getServerInstructions(): a fixed text (its first line stands for it).
ServerInstructions == "# Autotask MCP Server"

NoServer == [constructed |-> FALSE]

\* setupHandlers(): one setRequestHandler call per request kind.
SetupHandlersTwice(table) == [m \in Methods |-> table[m] + (IF m = "list_tools" THEN 2 ELSE 1)]
SetupHandlers(table) == [m \in Methods |-> table[m] + 1]

\* new AutotaskMcpServer(config, logger): new Server(...) then setupHandlers().
NewAutotaskMcpServer ==
    [constructed  |-> TRUE,
     name         |-> "config.name",
     version      |-> "config.version",
     capabilities |-> Capabilities,
     instructions |-> ServerInstructions,
     handlers     |-> SetupHandlers([m \in Methods |-> 0])]

NoHealth == [status |-> 0, body |-> "none", uptime |-> 0]

\* The state every run shares before main() has decided anything.
Blank ==
    /\ exitCode = 0
    /\ rejections = 0
    /\ bound = NoTransport
    /\ ntransports = 0
    /\ pc = [c \in Calls |-> "idle"]
    /\ req = [c \in Calls |-> NoRequest]
    /\ tr = [c \in Calls |-> NoTransport]
    /\ users = [t \in Calls |-> {}]
    /\ hooks = [c \in Calls |-> 0]
    /\ res = [c \in Calls |-> FreshResponse]
    /\ closeCalls = [t \in Calls |-> 0]
    /\ awaiting = [c \in Calls |-> FALSE]
    /\ captured = [c \in Calls |-> NoTransport]
    /\ dpc = [c \in Calls |-> "none"]
    /\ hout = [c \in Calls |-> NoOutcome]
    /\ dout = [c \in Calls |-> NoOutcome]
    /\ hcalls = [c \in Calls |-> << >>]
    /\ sentOn = [c \in Calls |-> Unsent]
    /\ received = [c \in Calls |-> {}]
    /\ logs = [c \in Calls |-> {}]
    /\ steps = [c \in Calls |-> << >>]
    /\ caught = [c \in Calls |-> 0]
    /\ listening = FALSE
    /\ sigs = << >>
    /\ stopCalls = 0
    /\ stopDone = 0
    /\ syslog = {}
    /\ health = NoHealth

\* HTTP mode: the process is started; main() has not run yet.
Init ==
    /\ Blank
    /\ proc = "starting"
    /\ config \in Configs
    /\ server = NoServer

\* stdio mode: the dispatcher has been constructed, start() not yet called.
InitDispatcher ==
    /\ Blank
    /\ proc = "running"
    /\ config = [k \in Credentials |-> TRUE]
    /\ server = NewAutotaskMcpServer

\* The event loop runs the next callback only while the process lives, and
\* only after a pending unhandled rejection has been reported.
Ready == proc = "running" /\ rejections = 0

\* What constructing the dispatcher and the HTTP app may do.
ConstructOutcomes == {"constructed", "dispatcherThrows", "httpAppThrows"}

\* main(), lines 92-164: validate the credentials, construct the dispatcher
\* and the HTTP app, listen, install the signal handlers; any failure is
\* logged and ends the process with exit code 1.  `server' is the dispatcher
\* the process serves with: it stays NoServer unless the try block completes.
Main ==
    /\ proc = "starting"
    /\ \E o \in ConstructOutcomes :
         IF MissingCredentials(config) \/ o # "constructed"
         THEN /\ syslog' = syslog \cup {"Failed to start Autotask MCP Server:"}
              /\ proc' = "exited"
              /\ exitCode' = 1
              /\ UNCHANGED <<server, listening>>
         ELSE /\ server' = NewAutotaskMcpServer
              /\ listening' = TRUE
              /\ proc' = "running"
              /\ UNCHANGED <<syslog, exitCode>>
    /\ UNCHANGED <<rejections, bound, ntransports, pc, req, tr, users, hooks, res,
                   closeCalls, awaiting, captured, dpc, hout, dout, hcalls, sentOn,
                   received, logs, steps, caught, config, sigs, stopCalls, stopDone, health>>

\* -------------------------------------- Stateless Transport Adapter (4.2)
\* `new StreamableHTTPServerTransport(...)': every call constructs its own.
PooledTransport(n) == IF n > 0 THEN n ELSE 1
NewTransport(n) == n + 1

\* `res.on('close', ...)' is executed once per call.
CloseListeners == 1

\* The order of lines 40, 45, 50 and 59: construct the session, install its
\* error callback, register the teardown hook, bind (connect).
StepsHookAfterConnect == <<"construct", "onerror", "connect", "hook">>
StepsBeforeSuspension == <<"construct", "onerror", "hook", "connect">>

\* logger.error('Failed to handle MCP request', err), line 65: one entry.
LogFailureTwice(n) == n + 2
LogFailure(n) == n + 1

\* res.headersSent
HeadersSent(r) == r.headerWrites > 0

\* writeHead / status(): one more write of the status line and headers.
WriteHead(r, status) == [r EXCEPT !.headerWrites = @ + 1, !.status = status]

\* The catch block, lines 64-76: log, and answer 500 unless headers were sent.
CatchUnguarded(r) ==
    [WriteHead(r, 500) EXCEPT !.body = Append(@, InternalServerErrorBody)]
CatchInverted(r) ==
    IF HeadersSent(r)
    THEN [WriteHead(r, 500) EXCEPT !.body = Append(@, InternalServerErrorBody)]
    ELSE r
Catch(r) ==
    IF ~HeadersSent(r)
    THEN [WriteHead(r, 500) EXCEPT !.body = Append(@, InternalServerErrorBody)]
    ELSE r

\* Lines 38-59 up to the first suspension point: construct the session,
\* install onerror, register the teardown hook, call mcpServer.connect, which
\* makes this session the dispatcher's transport.
PostMcp(c) ==
    /\ Ready
    /\ listening
    /\ pc[c] = "idle"
    /\ \A b \in Calls : b < c => pc[b] # "idle"
    /\ bound # StdioTransport
    /\ \E r \in HttpRequests :
         LET t == NewTransport(ntransports) IN
         \* only the equality of request ids matters: a call reuses the id
         \* of an earlier call or takes the smallest id not used so far
         /\ \A i \in RpcIds : i < r.id => \E b \in Calls : b < c /\ req[b].id = i
         /\ req' = [req EXCEPT ![c] = r]
         /\ ntransports' = t
         /\ tr' = [tr EXCEPT ![c] = t]
         /\ users' = [users EXCEPT ![t] = @ \cup {c}]
         /\ hooks' = [hooks EXCEPT ![c] = @ + CloseListeners]
         /\ bound' = t
         /\ pc' = [pc EXCEPT ![c] = "awaitConnect"]
    /\ steps' = [steps EXCEPT ![c] = StepsBeforeSuspension]
    /\ UNCHANGED <<proc, exitCode, rejections, res, closeCalls, awaiting, captured,
                   dpc, hout, dout, hcalls, sentOn, received, logs, caught>>
    /\ UNCHANGED hostVars

\* `await mcpServer.connect(transport)' rejects: the catch block runs.
ConnectRejected(c) ==
    /\ Ready
    /\ pc[c] = "awaitConnect"
    /\ logs' = [logs EXCEPT ![c] = @ \cup {"Failed to handle MCP request"}]
    /\ res' = [res EXCEPT ![c] = Catch(@)]
    /\ pc' = [pc EXCEPT ![c] = "caughtConnect"]
    /\ caught' = [caught EXCEPT ![c] = LogFailure(@)]
    /\ UNCHANGED <<proc, exitCode, rejections, bound, ntransports, req, tr, users, hooks,
                   closeCalls, awaiting, captured, dpc, hout, dout, hcalls, sentOn, received,
                   steps>>
    /\ UNCHANGED hostVars

\* connect resolved; `await transport.handleRequest(req, res, req.body)'
\* rejects before anything was written: the catch block runs.
HandleRequestRejectedEarly(c) ==
    /\ Ready
    /\ pc[c] = "awaitConnect"
    /\ logs' = [logs EXCEPT ![c] = @ \cup {"Failed to handle MCP request"}]
    /\ res' = [res EXCEPT ![c] = Catch(@)]
    /\ pc' = [pc EXCEPT ![c] = "caughtHandleEarly"]
    /\ steps' = [steps EXCEPT ![c] = Append(@, "handleRequest")]
    /\ caught' = [caught EXCEPT ![c] = LogFailure(@)]
    /\ UNCHANGED <<proc, exitCode, rejections, bound, ntransports, req, tr, users, hooks,
                   closeCalls, awaiting, captured, dpc, hout, dout, hcalls, sentOn, received>>
    /\ UNCHANGED hostVars

\* connect resolved; handleRequest began the response (status line and
\* headers written) and then rejects: the catch block runs.
HandleRequestRejectedLate(c) ==
    /\ Ready
    /\ pc[c] = "awaitConnect"
    /\ logs' = [logs EXCEPT ![c] = @ \cup {"Failed to handle MCP request"}]
    /\ res' = [res EXCEPT ![c] = Catch(WriteHead(@, 200))]
    /\ pc' = [pc EXCEPT ![c] = "caughtHandleLate"]
    /\ steps' = [steps EXCEPT ![c] = Append(@, "handleRequest")]
    /\ caught' = [caught EXCEPT ![c] = LogFailure(@)]
    /\ UNCHANGED <<proc, exitCode, rejections, bound, ntransports, req, tr, users, hooks,
                   closeCalls, awaiting, captured, dpc, hout, dout, hcalls, sentOn, received>>
    /\ UNCHANGED hostVars

\* connect resolved; handleRequest begins the response, keeps a stream open
\* for the request id and passes the message to the dispatcher, which answers
\* on the transport it is bound to at that moment and calls the capability
\* handler of the request kind.  The route handler then returns.
HandleRequestDispatched(c) ==
    /\ Ready
    /\ pc[c] = "awaitConnect"
    /\ res' = [res EXCEPT ![c] = WriteHead(@, 200)]
    /\ awaiting' = [awaiting EXCEPT ![c] = ~res[c].closed]
    /\ users' = [users EXCEPT ![tr[c]] = @ \cup {c}]
    /\ captured' = [captured EXCEPT ![c] = bound]
    /\ hcalls' = [hcalls EXCEPT ![c] = Append(@, Invocation(req[c]))]
    /\ dpc' = [dpc EXCEPT ![c] = "pending"]
    /\ pc' = [pc EXCEPT ![c] = "returned"]
    /\ steps' = [steps EXCEPT ![c] = Append(@, "handleRequest")]
    /\ UNCHANGED <<proc, exitCode, rejections, bound, ntransports, req, tr, hooks,
                   closeCalls, hout, dout, sentOn, received, logs, caught>>
    /\ UNCHANGED hostVars

\* The calls whose session is `t' and still holds an open stream for request
\* id `id': where transport.send(message) writes a response with that id.
StreamsFor(t, id) == { k \in Calls : tr[k] = t /\ awaiting[k] /\ req[k].id = id }

\* The request handler of call c settles with the capability handler's
\* `outcome'; the dispatcher sends the answer on the transport it captured
\* when the request arrived.  A session without an open stream for the id
\* refuses the message and the answer is dropped.
Settle(c, outcome) ==
    LET out == Dispatch(req[c], outcome)
        t   == captured[c]
        ks  == IF t \in Calls THEN StreamsFor(t, req[c].id) ELSE {}
    IN
    /\ dpc' = [dpc EXCEPT ![c] = "settled"]
    /\ hout' = [hout EXCEPT ![c] = outcome]
    /\ dout' = [dout EXCEPT ![c] = out]
    /\ logs' = [logs EXCEPT ![c] = IF outcome.type = "throw"
                                    THEN @ \cup {"Failed to " \o
                                        (CASE req[c].method = "list_resources" -> "list resources"
                                           [] req[c].method = "read_resource"  -> "read resource"
                                           [] req[c].method = "list_tools"     -> "list tools"
                                           [] req[c].method = "call_tool"      -> "call tool")}
                                    ELSE @]
    /\ IF t = StdioTransport
       THEN /\ sentOn' = [sentOn EXCEPT ![c] = [state |-> "stdout", stream |-> 0]]
            /\ UNCHANGED <<res, awaiting, received>>
       ELSE IF ks # {}
       THEN LET k == CHOOSE k \in ks : TRUE IN
            /\ res' = [res EXCEPT ![k].body = Append(@, Envelope(req[c].id, out))]
            /\ awaiting' = [awaiting EXCEPT ![k] = FALSE]
            /\ received' = [received EXCEPT ![k] = @ \cup {c}]
            /\ sentOn' = [sentOn EXCEPT ![c] = [state |-> "delivered", stream |-> k]]
       ELSE /\ sentOn' = [sentOn EXCEPT ![c] = [state |-> "dropped", stream |-> 0]]
            /\ UNCHANGED <<res, awaiting, received>>

\* The capability handler's promise resolves.
HandlerReturn(c) ==
    /\ Ready
    /\ dpc[c] = "pending"
    /\ \E v \in ReturnsOf(req[c].method) : Settle(c, Returned(v))
    /\ UNCHANGED <<proc, exitCode, rejections, bound, ntransports, pc, req, tr, users,
                   hooks, closeCalls, captured, hcalls>>
    /\ UNCHANGED <<traceVars, hostVars>>

\* The capability handler raises (or its promise rejects) with a failure of F.
HandlerThrow(c, F) ==
    /\ Ready
    /\ dpc[c] = "pending"
    /\ \E e \in F : Settle(c, Raised(e))
    /\ UNCHANGED <<proc, exitCode, rejections, bound, ntransports, pc, req, tr, users,
                   hooks, closeCalls, captured, hcalls>>
    /\ UNCHANGED <<traceVars, hostVars>>

\* `transport.close()' in the listener: every registered listener calls it.
CloseNotInvoked(n, listeners) == n
InvokeClose(n, listeners) == n + listeners

\* What transport.close() may do: complete, throw synchronously, or return a
\* promise that rejects later.
CloseOutcomes == {"closed", "throws", "rejects"}

\* The response stream of call c closes (completion, client disconnect or
\* error) and the listener of lines 50-56 runs: transport.close() inside
\* try/catch, its returned promise neither awaited nor handled.  A session
\* that closes tells the dispatcher, which drops its transport binding.
ResClose(c) ==
    /\ Ready
    /\ pc[c] \notin {"idle", "stdio"}
    /\ ~res[c].closed
    /\ res' = [res EXCEPT ![c].closed = TRUE]
    /\ closeCalls' = [closeCalls EXCEPT ![tr[c]] = InvokeClose(@, hooks[c])]
    /\ awaiting' = [awaiting EXCEPT ![c] = FALSE]
    /\ \E o \in CloseOutcomes :
         /\ bound' = IF o = "closed" THEN NoTransport ELSE bound
         /\ logs' = [logs EXCEPT ![c] = IF o = "throws"
                                         THEN @ \cup {"Error closing Streamable HTTP transport"}
                                         ELSE @]
         /\ rejections' = IF o = "rejects" THEN rejections + 1 ELSE rejections
    /\ UNCHANGED <<proc, exitCode, ntransports, pc, req, tr, users, hooks, captured,
                   dpc, hout, dout, hcalls, sentOn, received>>
    /\ UNCHANGED <<traceVars, hostVars>>

\* process.on('unhandledRejection'): console.error, process.exit(1).
UnhandledRejection ==
    /\ proc = "running"
    /\ rejections > 0
    /\ proc' = "exited"
    /\ exitCode' = 1
    /\ UNCHANGED <<rejections, bound, ntransports, pc, req, tr, users, hooks, res,
                   closeCalls, awaiting, captured, dpc, hout, dout, hcalls, sentOn, received, logs>>
    /\ UNCHANGED <<traceVars, hostVars>>

\* ------------------------------------------------- stdio mode (start())
\* start(): connect the dispatcher to a StdioServerTransport.
Start ==
    /\ Ready
    /\ bound = NoTransport
    /\ ntransports = 0
    /\ bound' = StdioTransport
    /\ UNCHANGED <<proc, exitCode, rejections, ntransports, pc, req, tr, users, hooks, res,
                   closeCalls, awaiting, captured, dpc, hout, dout, hcalls, sentOn, received, logs>>
    /\ UNCHANGED <<traceVars, hostVars>>

\* A request arrives on the persistent stream: the dispatcher calls the
\* capability handler of the request kind.
StdioRequest(c) ==
    /\ Ready
    /\ bound = StdioTransport
    /\ pc[c] = "idle"
    /\ \A b \in Calls : b < c => pc[b] # "idle"
    /\ \E r \in Requests :
         /\ req' = [req EXCEPT ![c] = r]
         /\ hcalls' = [hcalls EXCEPT ![c] = Append(@, Invocation(r))]
    /\ captured' = [captured EXCEPT ![c] = bound]
    /\ dpc' = [dpc EXCEPT ![c] = "pending"]
    /\ pc' = [pc EXCEPT ![c] = "stdio"]
    /\ UNCHANGED <<proc, exitCode, rejections, bound, ntransports, tr, users, hooks, res,
                   closeCalls, awaiting, hout, dout, sentOn, received, logs>>
    /\ UNCHANGED <<traceVars, hostVars>>

\* ------------------------------------------------ process-level handlers
\* transport.onerror, lines 45-47: a transport-level error of call c's
\* session is logged, nothing else.
TransportError(c) ==
    /\ Ready
    /\ pc[c] \notin {"idle", "stdio"}
    /\ syslog' = syslog \cup {"Streamable HTTP transport error"}
    /\ UNCHANGED <<proc, exitCode, rejections, bound, ntransports, pc, req, tr, users, hooks,
                   res, closeCalls, awaiting, captured, dpc, hout, dout, hcalls, sentOn,
                   received, logs, steps, caught, config, server, listening, sigs,
                   stopCalls, stopDone, health>>

Signals == {"SIGINT", "SIGTERM"}

\* httpServer.close(): no new request is accepted.
HttpServerStaysOpen(l) == l
HttpServerClose(l) == FALSE

\* process.on('SIGINT' | 'SIGTERM'), lines 143-155, up to the suspension
\* point: log, httpServer.close(), call server.stop() and await it.  Nothing
\* keeps a second signal from running the same handler again.
Signal(sig) ==
    /\ Ready
    /\ server.constructed
    /\ Len(sigs) < MaxSignals
    /\ sigs' = Append(sigs, sig)
    /\ syslog' = syslog \cup {"Received " \o sig \o ", shutting down gracefully..."}
    /\ listening' = HttpServerClose(listening)
    /\ stopCalls' = stopCalls + 1
    /\ UNCHANGED <<proc, exitCode, rejections, bound, ntransports, pc, req, tr, users, hooks,
                   res, closeCalls, awaiting, captured, dpc, hout, dout, hcalls, sentOn,
                   received, logs, steps, caught, config, server, stopDone, health>>

\* A pending stop() (await this.server.close()) completes; the signal handler
\* that awaited it goes on to process.exit(0).
StopResolved ==
    /\ Ready
    /\ stopCalls > stopDone
    /\ stopDone' = stopDone + 1
    /\ proc' = "exited"
    /\ exitCode' = 0
    /\ UNCHANGED <<rejections, bound, ntransports, pc, req, tr, users, hooks,
                   res, closeCalls, awaiting, captured, dpc, hout, dout, hcalls, sentOn,
                   received, logs, steps, caught, config, server, listening, sigs,
                   stopCalls, syslog, health>>

\* A pending stop() fails: the async signal handler's promise rejects, and
\* nobody handles it.
StopRejected ==
    /\ Ready
    /\ stopCalls > stopDone
    /\ rejections' = rejections + 1
    /\ UNCHANGED <<proc, exitCode, bound, ntransports, pc, req, tr, users, hooks,
                   res, closeCalls, awaiting, captured, dpc, hout, dout, hcalls, sentOn,
                   received, logs, steps, caught, config, server, listening, sigs,
                   stopCalls, stopDone, syslog, health>>

\* ------------------------------------------------- HTTP Front Door (4.3)
\* process.uptime(): the seconds the process has been running, `elapsed'
\* after the previous reading.
UptimeSinceLastProbe(last, elapsed) == elapsed
ProcessUptime(last, elapsed) == last + elapsed

\* GET /health, lines 28-34: res.json({status: 'ok', uptime, timestamp}).
Health ==
    /\ Ready
    /\ listening
    /\ \E elapsed \in 0..1 :
         /\ health.uptime + elapsed <= MaxUptime
         /\ health' = [status |-> 200, body |-> "ok",
                       uptime |-> ProcessUptime(health.uptime, elapsed)]
    /\ UNCHANGED <<proc, exitCode, rejections, bound, ntransports, pc, req, tr, users, hooks,
                   res, closeCalls, awaiting, captured, dpc, hout, dout, hcalls, sentOn,
                   received, logs, steps, caught, config, server, listening, sigs,
                   stopCalls, stopDone, syslog>>

\* ---------------------------------------------------------- specifications
\* HTTP mode: the process main() of src/unnamed/part_000 runs.
Next ==
    \/ Main
    \/ \E c \in Calls : PostMcp(c)
    \/ \E c \in Calls : ConnectRejected(c)
    \/ \E c \in Calls : HandleRequestRejectedEarly(c)
    \/ \E c \in Calls : HandleRequestRejectedLate(c)
    \/ \E c \in Calls : HandleRequestDispatched(c)
    \/ \E c \in Calls : HandlerReturn(c)
    \/ \E c \in Calls : HandlerThrow(c, HttpFailures)
    \/ \E c \in Calls : ResClose(c)
    \/ UnhandledRejection

Spec == Init /\ [][Next]_vars

\* HTTP mode with transport-level errors reported to the sessions.
NextSessions ==
    \/ Next
    \/ \E c \in Calls : TransportError(c)

SpecSessions == Init /\ [][NextSessions]_vars

\* HTTP mode with termination signals.
NextShutdown ==
    \/ Next
    \/ \E sig \in Signals : Signal(sig)
    \/ StopResolved
    \/ StopRejected

SpecShutdown == Init /\ [][NextShutdown]_vars

\* HTTP mode with liveness probes.
NextHealth ==
    \/ Next
    \/ Health

SpecHealth == Init /\ [][NextHealth]_vars

\* stdio mode: the dispatcher serves requests of a persistent stream.
NextDispatcher ==
    \/ Start
    \/ \E c \in Calls : StdioRequest(c)
    \/ \E c \in Calls : HandlerReturn(c)
    \/ \E c \in Calls : HandlerThrow(c, Failures)

SpecDispatcher == InitDispatcher /\ [][NextDispatcher]_vars

TypeOK ==
    /\ proc \in {"starting", "running", "exited"}
    /\ bound \in 0..StdioTransport
    /\ ntransports \in 0..NCalls
    /\ \A c \in Calls : tr[c] \in 0..NCalls /\ closeCalls[c] \in 0..NCalls

\* ------------------------------------------------------------ properties
Range(f) == { f[i] : i \in DOMAIN f }

\* The POST /mcp route handler of call c has started.
Started(c) == pc[c] \notin {"idle", "stdio"}

\* C1: every POST /mcp call that has started has constructed exactly one
\* session, no session serves two calls, and transport.close() has been
\* invoked on the call's session zero times while its response stream is
\* open and exactly once, never twice, once the stream has closed.
C1_OneSessionOneTeardown ==
    /\ ntransports = Cardinality({c \in Calls : Started(c)})
    /\ \A c \in Calls : Started(c) =>
          /\ tr[c] \in 1..ntransports
          /\ users[tr[c]] = {c}
          /\ \A d \in Calls \ {c} : Started(d) => tr[d] # tr[c]
          /\ hooks[c] = 1
          /\ closeCalls[tr[c]] = IF res[c].closed THEN 1 ELSE 0

\* One call whose capability handler raised and whose response then closed,
\* and another whose client closed the stream while its request was still
\* being served: both sessions have been torn down once.
C1_Witness ==
    \E c, d \in Calls :
        /\ c # d
        /\ res[c].closed /\ dpc[c] = "settled" /\ hout[c].type = "throw"
        /\ sentOn[c].state = "delivered"
        /\ closeCalls[tr[c]] = 1
        /\ res[d].closed /\ dpc[d] = "pending"
        /\ closeCalls[tr[d]] = 1

\* C2: each call's response stream receives only the answer to its own
\* request, and no call whose response stream is still open has its answer
\* dropped.
C2_OwnResultOnly ==
    \A c \in Calls :
        /\ received[c] \subseteq {c}
        /\ sentOn[c].state = "dropped" => res[c].closed

\* C3: a call whose connect, or whose handleRequest before any header was
\* written, failed has the response 500 with exactly the internal-error
\* envelope.
C3_SetupFailureIs500 ==
    \A c \in Calls :
        pc[c] \in {"caughtConnect", "caughtHandleEarly"} =>
            /\ res[c].status = 500
            /\ res[c].body = << [jsonrpc |-> "2.0",
                                 error |-> [code |-> -32603,
                                            message |-> "Internal server error"],
                                 id |-> NullId] >>

\* A call whose connect failed and a call whose handleRequest failed early.
C3_Witness ==
    \E c, d \in Calls :
        /\ pc[c] = "caughtConnect" /\ pc[d] = "caughtHandleEarly"
        /\ res[c].status = 500 /\ res[d].status = 500

\* C4: the status line and headers of every response are written at most
\* once; a call that failed after its response began is logged and keeps
\* the response it began, with no internal-error envelope added.
C4_NoSecondResponse ==
    \A c \in Calls :
        /\ res[c].headerWrites <= 1
        /\ pc[c] = "caughtHandleLate" =>
              /\ "Failed to handle MCP request" \in logs[c]
              /\ res[c].status = 200
              /\ InternalServerErrorBody \notin Range(res[c].body)

\* A call failed after its headers were written, and was logged.
C4_Witness ==
    \E c \in Calls :
        /\ pc[c] = "caughtHandleLate"
        /\ res[c].headerWrites = 1
        /\ "Failed to handle MCP request" \in logs[c]

\* The request handler of call c has settled after its capability handler
\* raised / returned.
SettledThrow(c)  == dpc[c] = "settled" /\ hout[c].type = "throw"
SettledReturn(c) == dpc[c] = "settled" /\ hout[c].type = "return"

StartsWith(s, p) == Len(s) >= Len(p) /\ SubSeq(s, 1, Len(p)) = p

\* The fixed message prefix of each operation.
PrefixOf(method) ==
    CASE method = "list_resources" -> "Failed to list resources"
      [] method = "read_resource"  -> "Failed to read resource"
      [] method = "list_tools"     -> "Failed to list tools"
      [] method = "call_tool"      -> "Failed to call tool"

\* What follows "<prefix>: " in a message.
CauseSuffix(message, prefix) == SubSeq(message, Len(prefix) + 3, Len(message))

\* C5: for each request kind, whatever the capability handler raises, the
\* request handler ends with a protocol error of code -32603 whose message
\* starts with the operation's fixed prefix; never a result, never another
\* code.
C5_FailuresBecomeInternalError ==
    \A c \in Calls :
        SettledThrow(c) =>
            /\ dout[c].kind = "error"
            /\ dout[c].code = -32603
            /\ StartsWith(dout[c].message, PrefixOf(req[c].method) \o ": ")

\* A read_resource whose handler raised an McpError with another code, and a
\* call_tool whose handler raised undefined.
C5_Witness ==
    \E c, d \in Calls :
        /\ SettledThrow(c) /\ req[c].method = "read_resource"
        /\ hout[c].value.type = "McpError" /\ hout[c].value.code # -32603
        /\ SettledThrow(d) /\ req[d].method = "call_tool"
        /\ hout[d].value.type = "undefined"

C7_SuccessShapes ==
    \A c \in Calls :
        SettledReturn(c) =>
            LET v == hout[c].value IN
            /\ dout[c].kind = "result"
            /\ req[c].method = "list_resources" => dout[c].result = [resources |-> v]
            /\ req[c].method = "read_resource"  => dout[c].result = [contents |-> <<v>>]
            /\ req[c].method = "list_tools"     => dout[c].result = [tools |-> v]
            /\ req[c].method = "call_tool"      =>
                   dout[c].result = [content |-> v.content, isError |-> v.isError]

\* A read_resource and a call_tool that both returned.
C7_Witness ==
    \E c, d \in Calls :
        /\ SettledReturn(c) /\ req[c].method = "read_resource"
        /\ Len(dout[c].result.contents) = 1
        /\ SettledReturn(d) /\ req[d].method = "call_tool"

\* C8: a tool result with isError = TRUE leaves the dispatcher as a success
\* result with isError = TRUE and the same content; what is written for it on
\* a response stream is that success envelope on a 200 response, and the
\* call's own response is never the 500 internal-error response.
C8_ToolErrorIsSuccess ==
    \A c \in Calls :
        (SettledReturn(c) /\ req[c].method = "call_tool" /\ hout[c].value.isError) =>
            /\ dout[c] = Result([content |-> hout[c].value.content, isError |-> TRUE])
            /\ res[c].status = 200
            /\ InternalServerErrorBody \notin Range(res[c].body)
            /\ sentOn[c].state = "delivered" =>
                  /\ res[sentOn[c].stream].status = 200
                  /\ [jsonrpc |-> "2.0", id |-> req[c].id,
                      result |-> [content |-> hout[c].value.content, isError |-> TRUE]]
                       \in Range(res[sentOn[c].stream].body)

\* A tool result with isError = TRUE was written on its own call's stream.
C8_Witness ==
    \E c \in Calls :
        /\ SettledReturn(c) /\ hout[c].value.isError
        /\ sentOn[c] = [state |-> "delivered", stream |-> c]
        /\ res[c].status = 200

\* C9: call_tool invokes the tool handler with the request's name and its
\* arguments, an empty mapping when the request omits them; a request that
\* omits arguments and one that sends an empty mapping make the same
\* invocation and, for the same tool outcome, get the same answer.
C9_OmittedArgumentsAreEmpty ==
    /\ \A c \in Calls :
          (dpc[c] # "none" /\ req[c].method = "call_tool") =>
              hcalls[c] = << [op |-> "callTool",
                              args |-> <<req[c].params.name,
                                         IF req[c].params.arguments = Omitted
                                         THEN EmptyMapping
                                         ELSE req[c].params.arguments>>] >>
    /\ \A c, d \in Calls :
          ( /\ dpc[c] # "none" /\ req[c].method = "call_tool"
            /\ dpc[d] # "none" /\ req[d].method = "call_tool"
            /\ req[c].params.name = req[d].params.name
            /\ req[c].params.arguments = Omitted
            /\ req[d].params.arguments = EmptyMapping ) =>
              /\ hcalls[c] = hcalls[d]
              /\ (dpc[c] = "settled" /\ dpc[d] = "settled" /\ hout[c] = hout[d])
                     => dout[c] = dout[d]

\* One call_tool without arguments and one with an empty mapping, settled
\* with the same tool result after the same invocation.
C9_Witness ==
    \E c, d \in Calls :
        /\ req[c].method = "call_tool" /\ req[c].params.arguments = Omitted
        /\ req[d].method = "call_tool" /\ req[d].params.arguments = EmptyMapping
        /\ SettledReturn(c) /\ SettledReturn(d) /\ hout[c] = hout[d]
        /\ hcalls[c][1].args[2] = EmptyMapping

\* C10: a failing teardown never reaches the process-level rejection handler
\* and never terminates the process.
C10_TeardownFailureSwallowed ==
    /\ rejections = 0
    /\ proc = "exited" => ~server.constructed

\* ------------------------------------------------------- process lifecycle
GracefulExit == proc = "exited" /\ exitCode = 0

StartupFailed == proc = "exited" /\ ~server.constructed

\* C12: with a credential missing or the dispatcher's construction failing,
\* the failure is logged, the process exits with a non-zero status, it never
\* listens and never serves a call, and startup is not attempted again.
C12_StartupFailureIsFatal ==
    /\ []((\E k \in Credentials : ~config[k]) =>
            /\ proc \in {"starting", "exited"}
            /\ ~listening /\ ~server.constructed /\ ntransports = 0)
    /\ [](StartupFailed =>
            /\ exitCode # 0
            /\ "Failed to start Autotask MCP Server:" \in syslog
            /\ ~listening /\ ntransports = 0)
    /\ [][StartupFailed => UNCHANGED vars]_vars

\* Startup ended in failure with the secret missing and the other credentials
\* present.
C12_Witness ==
    /\ StartupFailed
    /\ exitCode = 1
    /\ ~config["secret"] /\ config["username"] /\ config["integrationCode"]

\* ----------------------------------------------------------- GET /health
\* Everything a POST /mcp call, the dispatcher or the process owns.
sessionVars == <<proc, exitCode, rejections, bound, ntransports, pc, req, tr, users, hooks,
                 res, closeCalls, awaiting, captured, dpc, hout, dout, hcalls, sentOn,
                 received, logs, steps, caught, server, listening>>

\* C13: every health answer is 200 "ok", whatever calls are in flight or have
\* failed; successive answers carry non-decreasing uptime; and answering
\* creates no session and changes no dispatcher or session state.
C13_HealthIsOkAndPure ==
    /\ [](health # NoHealth => health.status = 200 /\ health.body = "ok")
    /\ []((Ready /\ listening) => ENABLED Health)
    /\ [][health' # health =>
            /\ health'.status = 200 /\ health'.body = "ok"
            /\ health'.uptime >= health.uptime
            /\ UNCHANGED sessionVars]_vars

\* A later probe answered with a larger uptime while one call had failed at
\* connect and another was being handled.
C13_Witness ==
    /\ health.status = 200 /\ health.uptime = MaxUptime
    /\ \E c, d \in Calls : pc[c] = "caughtConnect" /\ dpc[d] = "pending"

\* ------------------------------------------------------ session lifetime
\* C14: once the response stream of a started call has closed, for whatever
\* reason and at whatever point of the call, teardown of that call's session
\* has been invoked and the handler no longer waits on the stream.
C14_ClosedResponseTornDown ==
    \A c \in Calls :
        (Started(c) /\ res[c].closed) =>
            /\ closeCalls[tr[c]] >= 1
            /\ ~awaiting[c]

\* One response closed by a client disconnect before connect completed, and
\* one closed after its failure was answered with 500; both sessions were
\* torn down.
C14_Witness ==
    \E c, d \in Calls :
        /\ pc[c] = "awaitConnect" /\ res[c].closed /\ closeCalls[tr[c]] = 1
        /\ pc[d] = "caughtConnect" /\ res[d].closed /\ closeCalls[tr[d]] = 1

\* ------------------------------------------------------------ step order
StrictOrder == <<"construct", "onerror", "hook", "connect", "handleRequest">>

\* C15: the steps a call has taken are an initial part of construct, onerror,
\* hook, connect, handleRequest in that order; the teardown hook is in place
\* at the first suspension point, and handleRequest has begun only in calls
\* whose connect completed.
C15_StrictStepOrder ==
    \A c \in Calls :
        /\ pc[c] = "idle" => steps[c] = << >>
        /\ Started(c) =>
            /\ Len(steps[c]) \in {4, 5}
            /\ steps[c] = SubSeq(StrictOrder, 1, Len(steps[c]))
            /\ hooks[c] = 1
            /\ tr[c] # NoTransport
        /\ pc[c] \in {"awaitConnect", "caughtConnect"} => Len(steps[c]) = 4
        /\ (Started(c) /\ pc[c] \notin {"awaitConnect", "caughtConnect"}) =>
               Len(steps[c]) = 5

\* A call that went through all five steps while another one is suspended at
\* connect with its hook registered.
C15_Witness ==
    \E c, d \in Calls :
        /\ steps[c] = StrictOrder /\ dpc[c] = "settled"
        /\ pc[d] = "awaitConnect" /\ steps[d] = SubSeq(StrictOrder, 1, 4)

\* --------------------------------------------------- isolation of sessions
\* C16: a transport error or the close of one session is only logged: a
\* call in flight whose own response is still open keeps the dispatcher bound
\* to a session, whatever happens to the sessions of other calls.
C16_OtherCallsStayBound ==
    \A c \in Calls :
        (pc[c] = "awaitConnect" /\ ~res[c].closed) => bound # NoTransport

\* ------------------------------------------- one handler call per request
OperationFor(method) ==
    CASE method = "list_resources" -> "listResources"
      [] method = "read_resource"  -> "readResource"
      [] method = "list_tools"     -> "listTools"
      [] method = "call_tool"      -> "callTool"

\* C17: a request that has not been dispatched has caused no capability
\* handler call; a dispatched one has caused exactly one, on the operation of
\* its own kind, also after that call has failed.
C17_OneHandlerCallPerRequest ==
    \A c \in Calls :
        /\ dpc[c] = "none" => hcalls[c] = << >>
        /\ dpc[c] # "none" =>
            /\ Len(hcalls[c]) = 1
            /\ hcalls[c][1].op = OperationFor(req[c].method)

\* A list_tools request whose handler call failed and a read_resource request
\* whose handler call returned: one call each.
C17_Witness ==
    \E c, d \in Calls :
        /\ req[c].method = "list_tools" /\ SettledThrow(c) /\ Len(hcalls[c]) = 1
        /\ req[d].method = "read_resource" /\ SettledReturn(d) /\ Len(hcalls[d]) = 1

\* ------------------------------------------------------ repeated signals
\* C18: the dispatcher's stop() is invoked at most once in an execution,
\* also when a second signal arrives before the first shutdown has exited.
C18_StopInvokedAtMostOnce ==
    stopCalls <= 1

\* ------------------------------------------------- failures stay inside
CaughtStates == {"caughtConnect", "caughtHandleEarly", "caughtHandleLate"}

\* C19: a failure of connect or of handleRequest is caught in the route
\* handler and logged once; the step in which it happens adds no unhandled
\* rejection and leaves the process running.
C19_SetupFailureStaysInside ==
    /\ [](\A c \in Calls :
            /\ pc[c] \in CaughtStates =>
                  caught[c] = 1 /\ "Failed to handle MCP request" \in logs[c]
            /\ pc[c] \notin CaughtStates => caught[c] = 0)
    /\ [][\A c \in Calls :
            (pc[c] \notin CaughtStates /\ pc'[c] \in CaughtStates) =>
                /\ rejections' = rejections
                /\ proc' = "running"]_vars

\* One call failed at connect and another after its response had begun; both
\* were logged once and the process runs with no rejection pending.
C19_Witness ==
    /\ Ready
    /\ \E c, d \in Calls :
        /\ pc[c] = "caughtConnect" /\ caught[c] = 1
        /\ pc[d] = "caughtHandleLate" /\ caught[d] = 1

\* ------------------------------------------------- dispatcher is fixed
\* C20: once constructed, the dispatcher's identity, capabilities,
\* instructions and handler table are the ones written in the constructor,
\* each of the four handlers registered exactly once, and no step of any
\* call (handling, binding, teardown) changes them.
C20_DispatcherFixedAtConstruction ==
    /\ [](server.constructed =>
            /\ server.name = "config.name" /\ server.version = "config.version"
            /\ server.capabilities =
                  [resources |-> [subscribe |-> FALSE, listChanged |-> TRUE],
                   tools |-> [listChanged |-> TRUE]]
            /\ server.instructions = ServerInstructions
            /\ DOMAIN server.handlers = Methods
            /\ \A m \in Methods : server.handlers[m] = 1)
    /\ [][server.constructed => server' = server]_vars

\* A constructed dispatcher that has been bound to two sessions, has handled
\* a request and has had a session torn down.
C20_Witness ==
    /\ server.constructed
    /\ ntransports = 2
    /\ \E c \in Calls : dpc[c] = "settled" /\ res[c].closed /\ closeCalls[tr[c]] = 1

====
